---- MODULE Spec2Model ----
(***************************************************************************)
(* Keyword matcher (Disease_match.py) and appointment booking API (api.py). *)
(*                                                                         *)
(* Text is a sequence of one-character strings.  Scores are kept exactly:  *)
(* a sub-score is a fraction (numerator, denominator) and an emitted,      *)
(* one-decimal number is an integer count of tenths (33.3 is 333).         *)
(***************************************************************************)
EXTENDS Integers, Sequences, FiniteSets, TLC

VARIABLES
    transcript_text,   \* main: the transcript handed to the matcher
    keywords,          \* main: get_transcript_words(transcript_text)
    again,             \* get_transcript_words of the rejoined keywords
    keyword_folder,    \* the directory: [exists, files], files in os.listdir order
    ratio,             \* fuzz.partial_ratio, by (token, keyword phrase)
    results,           \* match_disease: the per-category tuples, in enumeration order
    raw,               \* match_disease: (sum_best, len(disease_keywords_long), exact_matches) per tuple
    ret,               \* match_disease: the returned pair (best, sorted_results)
    pc,                \* position of main / of the tokenization round trip
    appointments,      \* api: committed rows of the appointments table, by id
    db_lock,           \* api: the connection holding SQLite's write lock, 0 when free
    req                \* api: per request, its position, inputs, cursor and response

vars == <<transcript_text, keywords, again, keyword_folder, ratio,
          results, raw, ret, pc, appointments, db_lock, req>>

matchVars == <<keyword_folder, ratio, results, raw, ret>>
apiVars == <<appointments, db_lock, req>>

----------------------------------------------------------------------------
(* Characters *)

\* The word characters (regex \w, ASCII part) in code point order.
WordChars ==
    <<"0","1","2","3","4","5","6","7","8","9",
      "A","B","C","D","E","F","G","H","I","J","K","L","M",
      "N","O","P","Q","R","S","T","U","V","W","X","Y","Z",
      "_",
      "a","b","c","d","e","f","g","h","i","j","k","l","m",
      "n","o","p","q","r","s","t","u","v","w","x","y","z">>

Range(s) == {s[i] : i \in DOMAIN s}

WordCharSet == Range(WordChars)

IsWord(c) == c \in WordCharSet

\* regex \s and str.split / str.strip whitespace
IsSpace(c) == c \in {" ", "\t", "\n", "\r"}

OrdOf == [c \in WordCharSet |-> CHOOSE i \in DOMAIN WordChars : WordChars[i] = c]

\* The code point order of a word character.
Ord(c) == OrdOf[c]

\* str.lower, one character
LowerOf ==
    [c \in WordCharSet |->
        IF OrdOf[c] >= OrdOf["A"] /\ OrdOf[c] <= OrdOf["Z"]
        THEN WordChars[OrdOf[c] - OrdOf["A"] + OrdOf["a"]]
        ELSE c]

LowerChar(c) == IF IsWord(c) THEN LowerOf[c] ELSE c

\* str.lower
Lower(s) == [i \in DOMAIN s |-> LowerChar(s[i])]

\* re.sub(r"[^\w\s]", "", text)
StripPunctuation(s) == SelectSeq(s, LAMBDA c : IsWord(c) \/ IsSpace(c))

\* str.split(): the maximal runs of non-whitespace characters, in order
RECURSIVE SplitFrom(_, _, _)
SplitFrom(s, i, cur) ==
    IF i > Len(s)
    THEN IF cur = <<>> THEN <<>> ELSE <<cur>>
    ELSE IF IsSpace(s[i])
         THEN IF cur = <<>> THEN SplitFrom(s, i + 1, <<>>)
              ELSE <<cur>> \o SplitFrom(s, i + 1, <<>>)
         ELSE SplitFrom(s, i + 1, Append(cur, s[i]))

Split(s) == SplitFrom(s, 1, <<>>)

\* str.strip()
RECURSIVE StripLeft(_)
StripLeft(s) == IF s # <<>> /\ IsSpace(Head(s)) THEN StripLeft(Tail(s)) ELSE s

RECURSIVE StripRight(_)
StripRight(s) ==
    IF s # <<>> /\ IsSpace(s[Len(s)]) THEN StripRight(SubSeq(s, 1, Len(s) - 1)) ELSE s

Strip(s) == StripRight(StripLeft(s))

\* Python's string order: by code point, a proper prefix first.  Only used on
\* tokens, which hold word characters alone.
RECURSIVE StrLess(_, _)
StrLess(a, b) ==
    IF a = <<>> THEN b # <<>>
    ELSE IF b = <<>> THEN FALSE
    ELSE IF Head(a) = Head(b) THEN StrLess(Tail(a), Tail(b))
    ELSE Ord(Head(a)) < Ord(Head(b))

\* sorted(set of strings)
RECURSIVE SortedStrings(_)
SortedStrings(S) ==
    IF S = {} THEN <<>>
    ELSE LET m == CHOOSE x \in S : \A y \in S \ {x} : StrLess(x, y)
         IN  <<m>> \o SortedStrings(S \ {m})

\* " ".join(words)
RECURSIVE JoinSpaces(_)
JoinSpaces(words) ==
    IF words = <<>> THEN <<>>
    ELSE IF Len(words) = 1 THEN words[1]
    ELSE words[1] \o <<" ">> \o JoinSpaces(Tail(words))

----------------------------------------------------------------------------
(* Disease_match.py: get_transcript_words *)

stop_words == {
    <<"a">>, <<"a","b","o","u","t">>, <<"a","f","t","e","r">>, <<"a","g","a","i","n","s","t">>,
    <<"a","l","l">>, <<"a","l","m","o","s","t">>, <<"a","l","s","o">>,
    <<"a","l","t","h","o","u","g","h">>, <<"a","l","w","a","y","s">>, <<"a","m">>, <<"a","n">>,
    <<"a","n","d">>, <<"a","n","y">>, <<"a","n","y","w","h","e","r","e">>, <<"a","r","e">>,
    <<"a","s">>, <<"a","t">>, <<"b","e">>, <<"b","e","c","a","u","s","e">>,
    <<"b","e","c","o","m","e">>, <<"b","e","e","n">>, <<"b","e","f","o","r","e">>,
    <<"b","e","i","n","g">>, <<"b","i","t">>, <<"b","u","t">>, <<"b","y">>, <<"c","a","n">>,
    <<"c","h","a","p","p","e","d">>, <<"c","l","o","t","h","e","s">>, <<"c","o","m","e">>,
    <<"c","o","n","c","e","r","n">>, <<"c","o","u","l","d">>, <<"c","u","t","s">>,
    <<"d","i","d">>, <<"d","o">>, <<"d","o","e","s">>, <<"d","o","e","s","n","'","t">>,
    <<"d","o","i","n","g">>, <<"d","o","n","'","t">>, <<"e","l","s","e">>,
    <<"e","s","p","e","c","i","a","l","l","y">>, <<"e","v","e","n">>, <<"e","v","e","r","y">>,
    <<"f","e","e","l">>, <<"f","e","e","l","i","n","g">>, <<"f","e","e","l","s">>,
    <<"f","i","n","d">>, <<"f","o","r">>, <<"f","o","u","n","d">>, <<"f","r","o","m">>,
    <<"f","u","r","t","h","e","r">>, <<"g","e","t">>, <<"g","e","t","s">>,
    <<"g","e","t","t","i","n","g">>, <<"g","o">>, <<"g","o","e","s">>, <<"g","o","i","n","g">>,
    <<"g","o","t">>, <<"g","o","t","t","e","n">>, <<"h","a","d">>, <<"h","a","s">>,
    <<"h","a","s","n","'","t">>, <<"h","a","v","e">>, <<"h","a","v","e","n","'","t">>,
    <<"h","a","v","i","n","g">>, <<"h","e">>, <<"h","e","r">>, <<"h","e","r","e">>,
    <<"h","e","r","s">>, <<"h","e","r","s","e","l","f">>, <<"h","i","m">>,
    <<"h","i","m","s","e","l","f">>, <<"h","i","s">>, <<"h","o","w">>,
    <<"h","o","w","e","v","e","r">>, <<"i">>, <<"i","f">>, <<"i","n">>, <<"i","s">>,
    <<"i","s","n","'","t">>, <<"i","t">>, <<"i","t","'","s">>, <<"i","t","s">>,
    <<"j","u","s","t">>, <<"k","i","n","d">>, <<"k","n","o","w">>, <<"l","i","k","e">>,
    <<"l","i","t","t","l","e">>, <<"l","o","o","k">>, <<"l","o","o","k","s">>,
    <<"m","a","d","e">>, <<"m","a","k","e">>, <<"m","a","k","e","s">>,
    <<"m","a","k","i","n","g">>, <<"m","a","n","y">>, <<"m","a","y">>, <<"m","e">>,
    <<"m","o","r","e">>, <<"m","o","s","t">>, <<"m","u","c","h">>, <<"m","u","s","t">>,
    <<"m","y">>, <<"m","y","s","e","l","f">>, <<"n","o","t","i","c","e","d">>, <<"n","o","w">>,
    <<"o","f">>, <<"o","n">>, <<"o","n","t","o">>, <<"o","r">>, <<"o","t","h","e","r">>,
    <<"o","u","r">>, <<"o","u","r","s">>, <<"o","u","r","s","e","l","v","e","s">>,
    <<"o","v","e","r">>, <<"o","w","n">>, <<"p","e","x","i","n","g">>, <<"q","u","i","t","e">>,
    <<"r","e","a","d">>, <<"r","e","a","l","l","y">>, <<"s","e","e">>, <<"s","e","e","m">>,
    <<"s","e","e","m","e","d">>, <<"s","e","e","n">>, <<"s","h","e">>,
    <<"s","h","o","u","l","d">>, <<"s","h","o","w">>, <<"s","i","n","c","e">>,
    <<"s","k","i","n">>, <<"s","m","a","l","l">>, <<"s","o">>, <<"s","o","m","e">>,
    <<"s","o","m","e","t","i","m","e","s">>, <<"s","o","o","n">>, <<"s","p","o","t">>,
    <<"s","p","r","e","a","d">>, <<"s","t","a","r","t","e","d">>, <<"s","t","i","l","l">>,
    <<"s","u","c","h">>, <<"t","h","a","n">>, <<"t","h","a","n","k">>,
    <<"t","h","a","n","k","s">>, <<"t","h","a","t">>, <<"t","h","a","t","'","s">>,
    <<"t","h","e">>, <<"t","h","e","i","r">>, <<"t","h","e","i","r","s">>, <<"t","h","e","m">>,
    <<"t","h","e","m","s","e","l","v","e","s">>, <<"t","h","e","n">>, <<"t","h","e","r","e">>,
    <<"t","h","e","r","e","f","o","r","e">>, <<"t","h","e","s","e">>, <<"t","h","e","y">>,
    <<"t","h","i","s">>, <<"t","h","o","s","e">>, <<"t","h","r","o","u","g","h">>,
    <<"t","i","m","e">>, <<"t","i","m","e","s">>, <<"t","o">>, <<"t","o","d","a","y">>,
    <<"t","o","o">>, <<"t","r","y">>, <<"u","p">>, <<"u","p","o","n">>, <<"u","s">>,
    <<"u","s","e","d">>, <<"v","e","r","y">>, <<"w","a","n","t">>, <<"w","a","n","t","e","d">>,
    <<"w","a","s">>, <<"w","a","s","n","'","t">>, <<"w","a","y">>, <<"w","e">>,
    <<"w","e","l","l">>, <<"w","e","r","e">>, <<"w","e","r","e","n","'","t">>,
    <<"w","h","a","t">>, <<"w","h","e","n">>, <<"w","h","e","r","e">>, <<"w","h","i","c","h">>,
    <<"w","h","i","l","e">>, <<"w","h","o">>, <<"w","h","o","m">>, <<"w","h","y">>,
    <<"w","i","l","l">>, <<"w","i","t","h">>, <<"w","o","r","k">>, <<"w","o","u","l","d">>,
    <<"y","o","u">>, <<"y","o","u","r">>, <<"y","o","u","r","s">>,
    <<"y","o","u","r","s","e","l","f">>, <<"y","o","u","r","s","e","l","v","e","s">>
    }

\* FilterWords keeping the words of length two: len(word) >= 2.
MutFilterWords(text) ==
    LET all_words == Split(text)
    IN  {all_words[i] : i \in {j \in DOMAIN all_words :
                                  all_words[j] \notin stop_words /\ Len(all_words[j]) >= 2}}

\* The split-and-filter step with the punctuation already removed.
FilterWords(text) ==
    LET all_words == Split(text)
    IN  {all_words[i] : i \in {j \in DOMAIN all_words :
                                  all_words[j] \notin stop_words /\ Len(all_words[j]) > 2}}

\* get_transcript_words filtering the words before it removes the punctuation.
MutGetTranscriptWords(text) ==
    LET all_words == Split(Lower(text))
        kept == {j \in DOMAIN all_words :
                    all_words[j] \notin stop_words /\ Len(all_words[j]) > 2}
    IN  SortedStrings({StripPunctuation(all_words[j]) : j \in kept})

get_transcript_words(text) ==
    SortedStrings(FilterWords(StripPunctuation(Lower(text))))

----------------------------------------------------------------------------
(* Inputs of a run: the transcript and the entries of the keyword directory *)

\* Transcripts as the speech recogniser may hand them over: "the a it is",
\* "It is large.", "Itchy Rash!", "itchy rash", "a small rash".
TranscriptSamples ==
    {
      <<"t","h","e"," ","a"," ","i","t"," ","i","s">>,
      <<"I","t"," ","i","s"," ","l","a","r","g","e",".">>,
      <<"I","t","c","h","y"," ","R","a","s","h","!">>,
      <<"i","t","c","h","y"," ","r","a","s","h">>,
      <<"a"," ","s","m","a","l","l"," ","r","a","s","h">>
    }

\* Directory entries: eczema.txt, acne.txt, hives.txt (open or read raises),
\* notes.txt.bak, blank.txt; lines are the file's lines as iterated.
FileSamples ==
    {
      [name |-> <<"e","c","z","e","m","a",".","t","x","t">>,
       readable |-> TRUE,
       lines |-> <<<<"R","a","s","h","\n">>, <<"\n">>, <<" "," ","i","t","c","h","y"," ","r","a","s","h"," ","\n">>, <<"a","b","\n">>, <<"r","a","s","h">>>>],
      [name |-> <<"a","c","n","e",".","t","x","t">>,
       readable |-> TRUE,
       lines |-> <<<<"i","t","c","h","y"," ","r","a","s","h","\n">>, <<"R","A","S","H","\n">>>>],
      [name |-> <<"h","i","v","e","s",".","t","x","t">>,
       readable |-> FALSE,
       lines |-> <<<<"r","a","s","h","\n">>>>],
      [name |-> <<"n","o","t","e","s",".","t","x","t",".","b","a","k">>,
       readable |-> TRUE,
       lines |-> <<<<"r","a","s","h","\n">>>>],
      [name |-> <<"b","l","a","n","k",".","t","x","t">>,
       readable |-> TRUE,
       lines |-> <<<<"a","b","\n">>, <<" ","\n">>>>]
    }

\* get_transcript_words of each sample transcript, evaluated once.
TranscriptWords == [t \in TranscriptSamples |-> get_transcript_words(t)]

----------------------------------------------------------------------------
(* Disease_match.py: match_disease *)

\* str.endswith
EndsWith(s, suffix) ==
    /\ Len(s) >= Len(suffix)
    /\ SubSeq(s, Len(s) - Len(suffix) + 1, Len(s)) = suffix

\* Whether pat occurs in s at position i.
OccursAt(s, pat, i) ==
    /\ i + Len(pat) - 1 <= Len(s)
    /\ SubSeq(s, i, i + Len(pat) - 1) = pat

\* str.replace(old, ""): the occurrences of old, left to right, removed
RECURSIVE RemoveAll(_, _)
RemoveAll(s, old) ==
    IF s = <<>> THEN <<>>
    ELSE IF OccursAt(s, old, 1) THEN RemoveAll(SubSeq(s, Len(old) + 1, Len(s)), old)
    ELSE <<Head(s)>> \o RemoveAll(Tail(s), old)

\* re.search(re.escape(dk), transcript_text): dk as a literal, case-sensitive
\* substring of the text as passed
re_search(dk, text) == \E i \in 1..Len(text) + 1 : OccursAt(text, dk, i)

DotTxt == <<".", "t", "x", "t">>

stop_tokens ==
    { <<"a">>, <<"a","n">>, <<"t","h","e">>, <<"i","s">>, <<"i","t">>, <<"i">>, <<"m","e">>,
      <<"m","y">>, <<"w","e">>, <<"y","o","u">>, <<"h","e">>, <<"s","h","e">>,
      <<"t","h","e","y">>, <<"s","m","a","l","l">>, <<"l","a","r","g","e">> }

\* extracted = [k for k in extracted_keywords if len(k) >= 3 and k not in stop_tokens]
Extracted(extracted_keywords) ==
    SelectSeq(extracted_keywords, LAMBDA k : Len(k) >= 3 /\ k \notin stop_tokens)

\* disease_keywords = [line.strip().lower() for line in f if line.strip()]
ReadKeywords(lines) ==
    LET kept == SelectSeq(lines, LAMBDA line : Strip(line) # <<>>)
    IN  [i \in DOMAIN kept |-> Lower(Strip(kept[i]))]

\* disease_keywords_long = [dk for dk in disease_keywords if len(dk) >= 3]
LongKeywords(disease_keywords) == SelectSeq(disease_keywords, LAMBDA dk : Len(dk) >= 3)

\* fuzz.partial_ratio(ek, dk): the similarity library's score, 0..100.  The
\* library is not part of the repository: a run fixes any score per pair.
partial_ratio(ek, dk) == ratio[<<ek, dk>>]

\* best = 0; for ek in extracted: s = partial_ratio(ek, dk); if s > best: best = s
RECURSIVE BestMatch(_, _, _, _)
BestMatch(dk, extracted, i, best) ==
    IF i > Len(extracted) THEN best
    ELSE LET s == partial_ratio(extracted[i], dk)
         IN  BestMatch(dk, extracted, i + 1, IF s > best THEN s ELSE best)

\* sum_best over disease_keywords_long
RECURSIVE SumBest(_, _)
SumBest(dks, extracted) ==
    IF dks = <<>> THEN 0
    ELSE BestMatch(Head(dks), extracted, 1, 0) + SumBest(Tail(dks), extracted)

\* exact_matches: the phrases found by re.search in the transcript
RECURSIVE ExactMatches(_, _)
ExactMatches(dks, text) ==
    IF dks = <<>> THEN 0
    ELSE (IF re_search(Head(dks), text) THEN 1 ELSE 0) + ExactMatches(Tail(dks), text)

Max1(n) == IF n < 1 THEN 1 ELSE n

\* round(num/den, 1) in tenths, for num >= 0 and den > 0.  A value that is
\* not a decimal tie goes to the nearer tenth.  avg_fuzzy and exact_coverage
\* are one correctly rounded division of small integers, and a tie of theirs
\* goes to the even tenth; final_score is a sum of two rounded products, and
\* a tie of the exact value falls on either side: up says which.
Round1(num, den, tie_even, up) ==
    LET lo == (10 * num) \div den
        twice == 2 * ((10 * num) % den)
    IN  IF twice < den THEN lo
        ELSE IF twice > den THEN lo + 1
        ELSE IF tie_even THEN (IF lo % 2 = 0 THEN lo ELSE lo + 1)
        ELSE IF up THEN lo + 1 ELSE lo

\* AvgFuzzy without the division by the number of phrases.
MutAvgFuzzy(sum_best, n) == <<sum_best, 1>>

\* avg_fuzzy = sum_best / len(disease_keywords_long), 0.0 for no keywords: as
\* the fraction <<numerator, denominator>>
AvgFuzzy(sum_best, n) == <<sum_best, Max1(n)>>

\* exact_coverage = (exact_matches / max(1, len(disease_keywords_long))) * 100.0
ExactCoverage(exact_matches, n) == <<100 * exact_matches, Max1(n)>>

\* final_score = 0.65 * avg_fuzzy + 0.35 * exact_coverage, as a fraction
\* (avg_fuzzy and exact_coverage have the same denominator)
FinalScore(avg_fuzzy, exact_coverage) ==
    <<65 * avg_fuzzy[1] + 35 * exact_coverage[1], 100 * avg_fuzzy[2]>>

\* ResultTuple blending the sub-scores after rounding them.
MutResultTuple(disease_name, avg_fuzzy, exact_coverage, up) ==
    LET fuzzy == Round1(avg_fuzzy[1], avg_fuzzy[2], TRUE, up)
        exact == Round1(exact_coverage[1], exact_coverage[2], TRUE, up)
    IN  <<disease_name, Round1(65 * fuzzy + 35 * exact, 1000, FALSE, up), fuzzy, exact>>

\* (disease_name, round(final_score, 1), round(avg_fuzzy, 1), round(exact_coverage, 1))
ResultTuple(disease_name, avg_fuzzy, exact_coverage, up) ==
    LET final_score == FinalScore(avg_fuzzy, exact_coverage)
    IN  << disease_name,
           Round1(final_score[1], final_score[2], FALSE, up),
           Round1(avg_fuzzy[1], avg_fuzzy[2], TRUE, up),
           Round1(exact_coverage[1], exact_coverage[2], TRUE, up) >>

\* disease_keywords_long of each sample file, evaluated once.
KeywordsLong == [f \in FileSamples |-> LongKeywords(ReadKeywords(f.lines))]

\* The locals (sum_best, len(disease_keywords_long), exact_matches) of one category.
RawScores(file, extracted, text) ==
    LET dks == KeywordsLong[file]
    IN  <<SumBest(dks, extracted), Len(dks), ExactMatches(dks, text)>>

\* The loop body from the fuzzy average to results.append, for one category.
ScoreCategory(file, extracted, text, up) ==
    LET r == RawScores(file, extracted, text)
    IN  ResultTuple(RemoveAll(file.name, DotTxt),
                    AvgFuzzy(r[1], r[2]), ExactCoverage(r[3], r[2]), up)

\* Usable taking any name that holds ".txt" for a category file.
MutUsable(file) ==
    /\ \E i \in 1..Len(file.name) : OccursAt(file.name, DotTxt, i)
    /\ file.readable

\* A directory entry the loop scores: named *.txt, and open/read raises nothing.
Usable(file) == EndsWith(file.name, DotTxt) /\ file.readable

\* ScoredFiles with the loop ended by the first file whose read fails.
RECURSIVE MutScoredFiles(_)
MutScoredFiles(files) ==
    IF files = <<>> THEN <<>>
    ELSE IF EndsWith(Head(files).name, DotTxt) /\ ~Head(files).readable THEN <<>>
    ELSE (IF Usable(Head(files)) THEN <<Head(files)>> ELSE <<>>) \o MutScoredFiles(Tail(files))

\* The listing entries the loop does not skip, in os.listdir order.
ScoredFiles(files) == SelectSeq(files, Usable)

\* InsertDesc putting an element before the earlier ones of the same key.
RECURSIVE MutInsertDesc(_, _)
MutInsertDesc(sorted, x) ==
    IF sorted = <<>> THEN <<x>>
    ELSE IF Head(sorted)[2] > x[2] THEN <<Head(sorted)>> \o MutInsertDesc(Tail(sorted), x)
    ELSE <<x>> \o sorted

\* sorted(results, key=lambda x: x[1], reverse=True): insertion keeps an element
\* behind every earlier one whose key is not smaller
RECURSIVE InsertDesc(_, _)
InsertDesc(sorted, x) ==
    IF sorted = <<>> THEN <<x>>
    ELSE IF Head(sorted)[2] >= x[2] THEN <<Head(sorted)>> \o InsertDesc(Tail(sorted), x)
    ELSE <<x>> \o sorted

RECURSIVE SortedByFinal(_, _)
SortedByFinal(rs, i) ==
    IF i = 0 THEN <<>> ELSE InsertDesc(SortedByFinal(rs, i - 1), rs[i])

\* results as the loop leaves it
ScanFolder(files, extracted, text, up) ==
    LET scored == ScoredFiles(files)
    IN  [i \in DOMAIN scored |-> ScoreCategory(scored[i], extracted, text, up)]

ScanRaw(files, extracted, text) ==
    LET scored == ScoredFiles(files)
    IN  [i \in DOMAIN scored |-> RawScores(scored[i], extracted, text)]

NoKeywords == <<"N","o","K","e","y","w","o","r","d","s">>
KeywordFolderNotFound ==
    <<"K","e","y","w","o","r","d","F","o","l","d","e","r","N","o","t","F","o","u","n","d">>
NoKeywordFiles == <<"N","o","K","e","y","w","o","r","d","F","i","l","e","s">>

\* match_disease listing the directory without the os.path.isdir test.
MutMatchDisease(extracted_keywords, text, folder, up) ==
    LET extracted == Extracted(extracted_keywords)
    IN  IF extracted = <<>> THEN << <<NoKeywords, 0>>, <<>> >>
        ELSE LET rs == ScanFolder(folder.files, extracted, text, up)
             IN  IF rs = <<>> THEN << <<NoKeywordFiles, 0>>, <<>> >>
                 ELSE LET sorted_results == SortedByFinal(rs, Len(rs))
                      IN  << <<sorted_results[1][1], sorted_results[1][2]>>, sorted_results >>

\* The returned pair (best, sorted_results); a score is in tenths.
match_disease(extracted_keywords, text, folder, up) ==
    LET extracted == Extracted(extracted_keywords)
    IN  IF extracted = <<>> THEN << <<NoKeywords, 0>>, <<>> >>
        ELSE IF ~folder.exists THEN << <<KeywordFolderNotFound, 0>>, <<>> >>
        ELSE LET rs == ScanFolder(folder.files, extracted, text, up)
             IN  IF rs = <<>> THEN << <<NoKeywordFiles, 0>>, <<>> >>
                 ELSE LET sorted_results == SortedByFinal(rs, Len(rs))
                      IN  << <<sorted_results[1][1], sorted_results[1][2]>>, sorted_results >>

----------------------------------------------------------------------------
(* Disease_match.py: main, from the transcript to the returned pair *)

MaxFiles == 3

\* The listings os.listdir may return: up to n distinct entries, in any order.
RECURSIVE Listings(_)
Listings(n) ==
    IF n = 0 THEN {<<>>}
    ELSE LET shorter == Listings(n - 1)
         IN  shorter \cup {Append(l, f) : l \in {k \in shorter : Len(k) = n - 1},
                                           f \in FileSamples}

Distinct(l) == \A i, j \in DOMAIN l : i # j => l[i] # l[j]

FolderSamples ==
    {[exists |-> FALSE, files |-> <<>>]}
        \cup {[exists |-> TRUE, files |-> l] : l \in {k \in Listings(MaxFiles) : Distinct(k)}}

\* The tokens and phrases the similarity library is asked about.
ExtractedUniverse == UNION {Range(Extracted(TranscriptWords[t])) : t \in TranscriptSamples}

PhraseUniverse == UNION {Range(KeywordsLong[f]) : f \in FileSamples}

SimValues == {0, 50, 100}

Init ==
    /\ transcript_text \in TranscriptSamples
    /\ keyword_folder \in FolderSamples
    /\ ratio \in [ExtractedUniverse \X PhraseUniverse -> SimValues]
    /\ keywords = <<>>
    /\ again = <<>>
    /\ results = <<>>
    /\ raw = <<>>
    /\ ret = <<>>
    /\ pc = "start"
    /\ appointments = <<>>
    /\ db_lock = 0
    /\ req = <<>>

\* main, lines 188-195: keywords = get_transcript_words(transcript_text);
\* best_match, all_scores = match_disease(keywords, transcript_text, "keywords")
Main ==
    /\ pc = "start"
    /\ transcript_text # <<>>
    /\ \E up \in BOOLEAN :
         LET words == TranscriptWords[transcript_text]
             extracted == Extracted(words)
             scanned == extracted # <<>> /\ keyword_folder.exists
         IN  /\ keywords' = words
             /\ results' = IF scanned
                           THEN ScanFolder(keyword_folder.files, extracted, transcript_text, up)
                           ELSE <<>>
             /\ raw' = IF scanned
                       THEN ScanRaw(keyword_folder.files, extracted, transcript_text)
                       ELSE <<>>
             /\ ret' = match_disease(words, transcript_text, keyword_folder, up)
    /\ pc' = "done"
    /\ UNCHANGED <<transcript_text, again, keyword_folder, ratio, apiVars>>

Next == Main

Spec == Init /\ [][Next]_vars

----------------------------------------------------------------------------
(* Properties of match_disease *)

Abs(x) == IF x < 0 THEN -x ELSE x

\* t tenths is the fraction num/den rounded to one decimal (either side of a tie).
IsRounded(t, num, den) == 2 * Abs(den * t - 10 * num) <= den

\* The emitted final of results[i] is the blend of the emitted sub-scores of
\* the same tuple, rounded to one decimal.
BlendOfEmitted(i) ==
    IsRounded(results[i][2], 65 * results[i][3] + 35 * results[i][4], 1000)

\* C1 as stated: every emitted final score equals 0.65 x the emitted fuzzy
\* sub-score + 0.35 x the emitted exact sub-score, rounded to one decimal.
C1_FinalIsBlendOfEmitted ==
    pc = "done" => \A i \in DOMAIN results : BlendOfEmitted(i)

\* C1 amended: every emitted final score is 0.65 x the unrounded fuzzy average
\* + 0.35 x the unrounded exact coverage, rounded to one decimal; the emitted
\* sub-scores are those two values rounded to one decimal; and the emitted
\* final is within 0.1 of the blend of the emitted sub-scores.
C1_FinalIsBlendOfUnrounded ==
    pc = "done" =>
        /\ DOMAIN raw = DOMAIN results
        /\ \A i \in DOMAIN results :
             LET sum_best == raw[i][1]
                 n == Max1(raw[i][2])
                 exact_matches == raw[i][3]
             IN  /\ IsRounded(results[i][2], 65 * sum_best + 3500 * exact_matches, 100 * n)
                 /\ IsRounded(results[i][3], sum_best, n)
                 /\ IsRounded(results[i][4], 100 * exact_matches, n)
                 /\ Abs(100 * results[i][2] - (65 * results[i][3] + 35 * results[i][4])) <= 100

\* A category whose emitted final is not the rounded blend of its emitted sub-scores.
C1_Witness == pc = "done" /\ \E i \in DOMAIN results : ~BlendOfEmitted(i)

\* C2: for every scored category the fuzzy sub-score, the exact sub-score and
\* the final score lie in [0, 100] (0..1000 tenths), also when no phrase of
\* the list has length >= 3.
C2_ScoresInRange ==
    pc = "done" =>
        \A i \in DOMAIN results :
            /\ results[i][2] \in 0..1000
            /\ results[i][3] \in 0..1000
            /\ results[i][4] \in 0..1000
            /\ raw[i][2] = 0 => results[i][3] = 0

\* One category with no phrase left after the length filter beside one at the top of the range.
C2_Witness ==
    /\ pc = "done"
    /\ \E i, j \in DOMAIN results :
         /\ raw[i][2] = 0
         /\ results[j][2] = 1000 /\ results[j][3] = 1000 /\ results[j][4] = 1000

\* The phrases of dks that occur in the transcript once both are lower-cased.
RECURSIVE CaseNormalizedMatches(_, _)
CaseNormalizedMatches(dks, text) ==
    IF dks = <<>> THEN 0
    ELSE (IF re_search(Head(dks), Lower(text)) THEN 1 ELSE 0)
            + CaseNormalizedMatches(Tail(dks), text)

\* C3: the exact sub-score of a category is (phrases that occur in the
\* transcript as case-normalized literal substrings / |K|) x 100, K the
\* phrases of length >= 3: a phrase the transcript holds in another letter
\* case counts.
C3_ExactIsCaseNormalized ==
    pc = "done" =>
        \A i \in DOMAIN results :
            LET dks == KeywordsLong[ScoredFiles(keyword_folder.files)[i]]
            IN  IsRounded(results[i][4],
                          100 * CaseNormalizedMatches(dks, transcript_text), Max1(Len(dks)))

FolderNotFoundPair == << <<KeywordFolderNotFound, 0>>, <<>> >>
NoKeywordsPair == << <<NoKeywords, 0>>, <<>> >>
NoKeywordFilesPair == << <<NoKeywordFiles, 0>>, <<>> >>

\* C4 as stated: whenever the keyword directory does not exist, for every
\* token set and transcript, the call returns ("KeywordFolderNotFound", 0), [].
C4_MissingFolderAnyTokens ==
    (pc = "done" /\ ~keyword_folder.exists) => ret = FolderNotFoundPair

\* C4 amended: whenever the keyword directory does not exist and at least one
\* token survives the stop-token and length filter, the call returns
\* ("KeywordFolderNotFound", 0), []; with no surviving token it returns
\* ("NoKeywords", 0), [], the directory not being looked at.
C4_MissingFolderWithTokens ==
    (pc = "done" /\ ~keyword_folder.exists) =>
        /\ Extracted(keywords) # <<>> => ret = FolderNotFoundPair
        /\ Extracted(keywords) = <<>> => ret = NoKeywordsPair

\* A call with surviving tokens on a missing directory.
C4_Witness == pc = "done" /\ ~keyword_folder.exists /\ Extracted(keywords) # <<>>

Injective(p) == \A a, b \in DOMAIN p : a # b => p[a] # p[b]

\* C5: the ranked list is the stable descending sort of the per-category
\* results by final score: a permutation of them, non-increasing in final
\* score, equal final scores in enumeration order.
C5_RankedIsStableSort ==
    (pc = "done" /\ results # <<>>) =>
        LET ranked == ret[2]
            n == Len(results)
        IN  /\ Len(ranked) = n
            /\ \E p \in {q \in [1..n -> 1..n] : Injective(q)} :
                 /\ \A i \in 1..n : ranked[i] = results[p[i]]
                 /\ \A i, j \in 1..n :
                      i < j => /\ ranked[i][2] >= ranked[j][2]
                               /\ ranked[i][2] = ranked[j][2] => p[i] < p[j]

\* Three categories: two tie, and one enumerated earlier scores lower than a later one.
C5_Witness ==
    /\ pc = "done"
    /\ \E i, j, k, l \in DOMAIN results :
         /\ i < j /\ results[i][2] = results[j][2]
         /\ k < l /\ results[k][2] < results[l][2]

\* A *.txt entry whose open or read raises.
ReadFails(file) == EndsWith(file.name, DotTxt) /\ ~file.readable

\* The directory without the entries whose read fails.
WithoutFailing(folder) ==
    [folder EXCEPT !.files = SelectSeq(@, LAMBDA f : ~ReadFails(f))]

\* The *.txt entries of the listing that can be read, with the category names.
ReadableNames(files) ==
    LET ok == SelectSeq(files, LAMBDA f : EndsWith(f.name, DotTxt) /\ f.readable)
    IN  [i \in DOMAIN ok |-> RemoveAll(ok[i].name, DotTxt)]

\* C6: a category file whose read fails is skipped and nothing else changes:
\* the call returns, every readable category has its result, and the returned
\* pair is the one of the same directory without the failing file.
C6_FailingFileOnlySkipped ==
    pc = "done" =>
        /\ ret # <<>>
        /\ (Extracted(keywords) # <<>> /\ keyword_folder.exists) =>
               LET names == ReadableNames(keyword_folder.files)
               IN  /\ Len(results) = Len(names)
                   /\ \A i \in DOMAIN names : results[i][1] = names[i]
        /\ \E up \in BOOLEAN :
               ret = match_disease(keywords, transcript_text, WithoutFailing(keyword_folder), up)

\* A failing file enumerated before a readable one, in a call that scores.
C6_Witness ==
    /\ pc = "done"
    /\ results # <<>>
    /\ \E i, j \in DOMAIN keyword_folder.files :
         /\ i < j
         /\ ReadFails(keyword_folder.files[i])
         /\ EndsWith(keyword_folder.files[j].name, DotTxt) /\ keyword_folder.files[j].readable

\* No entry of the listing is a readable *.txt file.
NoUsableList ==
    \A i \in DOMAIN keyword_folder.files :
        ~(EndsWith(keyword_folder.files[i].name, DotTxt) /\ keyword_folder.files[i].readable)

\* C7: with a surviving token and an existing directory, zero usable category
\* lists give ("NoKeywordFiles", 0), []; otherwise the ranked list is non-empty
\* and BestMatch is the (name, final score) of its first entry.
C7_NoKeywordFilesOrBest ==
    (pc = "done" /\ Extracted(keywords) # <<>> /\ keyword_folder.exists) =>
        IF NoUsableList
        THEN ret = NoKeywordFilesPair
        ELSE /\ ret[2] # <<>>
             /\ ret[1] = <<ret[2][1][1], ret[2][1][2]>>

\* A non-empty directory none of whose entries is usable.
C7_Witness ==
    /\ pc = "done"
    /\ Extracted(keywords) # <<>>
    /\ keyword_folder.exists
    /\ keyword_folder.files # <<>>
    /\ ret = NoKeywordFilesPair

----------------------------------------------------------------------------
(* Tokenization round trip *)

MaxLen == 7

TokAlphabet == {"a", "L", "'", " "}

RECURSIVE TextsUpTo(_)
TextsUpTo(n) ==
    IF n = 0 THEN {<<>>}
    ELSE LET shorter == TextsUpTo(n - 1)
         IN  shorter \cup {Append(t, c) : t \in {u \in shorter : Len(u) = n - 1}, c \in TokAlphabet}

InitTok ==
    /\ transcript_text \in TextsUpTo(MaxLen)
    /\ keywords = <<>>
    /\ again = <<>>
    /\ pc = "start"
    /\ keyword_folder = [exists |-> FALSE, files |-> <<>>]
    /\ ratio = <<>>
    /\ results = <<>>
    /\ raw = <<>>
    /\ ret = <<>>
    /\ appointments = <<>>
    /\ db_lock = 0
    /\ req = <<>>

Tokenize ==
    /\ pc = "start"
    /\ keywords' = get_transcript_words(transcript_text)
    /\ pc' = "words"
    /\ UNCHANGED <<transcript_text, again, matchVars, apiVars>>

Retokenize ==
    /\ pc = "words"
    /\ again' = get_transcript_words(JoinSpaces(keywords))
    /\ pc' = "again"
    /\ UNCHANGED <<transcript_text, keywords, matchVars, apiVars>>

NextTok == Tokenize \/ Retokenize

SpecTok == InitTok /\ [][NextTok]_vars

----------------------------------------------------------------------------
(* Properties of get_transcript_words *)

\* C8: tokenization is idempotent: the tokens of the tokens rejoined with
\* single spaces are the tokens.
C8_TokenizeIdempotent == pc = "again" => again = keywords

\* Two tokens from a text the tokenizer had to change.
C8_Witness ==
    /\ pc = "again"
    /\ Len(keywords) >= 2
    /\ JoinSpaces(keywords) # transcript_text

\* C9: no returned token is a stop word or has length <= 2, and the returned
\* tokens are unique and in sorted order.
C9_TokensClean ==
    pc \in {"words", "again"} =>
        /\ \A i \in DOMAIN keywords : keywords[i] \notin stop_words /\ Len(keywords[i]) > 2
        /\ \A i, j \in DOMAIN keywords : i < j => StrLess(keywords[i], keywords[j])

\* A text holding a stop word of three letters, a short word and a token.
C9_Witness ==
    /\ pc = "words"
    /\ keywords # <<>>
    /\ \E w \in Range(Split(StripPunctuation(Lower(transcript_text)))) :
         w \in stop_words /\ Len(w) > 2

----------------------------------------------------------------------------
(* api.py: book_appointment over the appointments table *)

NumRequests == 3

Requests == 1..NumRequests
\* The ids of the rows of the table.
SlotIds == {1, 2}

None == "None"

\* A row of appointments: is_booked INTEGER DEFAULT 0, patient_id TEXT.
FreeRow == [is_booked |-> 0, patient_id |-> None]
BookedRow(patient_id) == [is_booked |-> 1, patient_id |-> patient_id]

\* data.get('slot_id'): absent (None), 0, a row's id, or an id no row has.
SlotInputs ==
    {[given |-> FALSE, id |-> 0]} \cup {[given |-> TRUE, id |-> i] : i \in {0, 3} \cup SlotIds}

\* data.get('patient_id', 'WEB_USER')
PatientInputs == {None, "P1"}
PatientId(given) == IF given = None THEN "WEB_USER" ELSE given

IdleRequest ==
    [pc |-> "idle", slot_id |-> 0, patient_id |-> None, rowcount |-> 0, status |-> 0]

\* The table as init_db and earlier runs leave it: each slot free or booked.
InitBook ==
    /\ appointments \in [SlotIds -> {FreeRow, BookedRow("P0")}]
    /\ db_lock = 0
    /\ req = [r \in Requests |-> IdleRequest]
    /\ transcript_text = <<>>
    /\ keywords = <<>>
    /\ again = <<>>
    /\ keyword_folder = [exists |-> FALSE, files |-> <<>>]
    /\ ratio = <<>>
    /\ results = <<>>
    /\ raw = <<>>
    /\ ret = <<>>
    /\ pc = "serving"

bookUnchanged == <<transcript_text, keywords, again, matchVars, pc>>

\* WHERE id = ? AND is_booked = 0 dropping the is_booked test.
MutRowMatches(slot_id) == slot_id \in DOMAIN appointments

\* WHERE id = ? AND is_booked = 0: whether the UPDATE finds its row.
RowMatches(slot_id) ==
    /\ slot_id \in DOMAIN appointments
    /\ appointments[slot_id].is_booked = 0

\* Lines 138-146: read the JSON body; a missing or zero slot id is answered 400.
Receive(r) ==
    /\ req[r].pc = "idle"
    /\ \E slot \in SlotInputs, given \in PatientInputs :
         req' = [req EXCEPT ![r] =
                   IF ~slot.given \/ slot.id = 0
                   THEN [@ EXCEPT !.pc = "done", !.status = 400]
                   ELSE [@ EXCEPT !.pc = "execute", !.slot_id = slot.id,
                                  !.patient_id = PatientId(given)]]
    /\ UNCHANGED <<appointments, db_lock, bookUnchanged>>

\* Lines 150-153: the UPDATE runs in the connection's own transaction, which
\* takes SQLite's write lock; the row changes for others at commit.
Execute(r) ==
    /\ req[r].pc = "execute"
    /\ db_lock = 0
    /\ db_lock' = r
    /\ req' = [req EXCEPT ![r] =
                 [@ EXCEPT !.pc = "commit",
                           !.rowcount = IF RowMatches(req[r].slot_id) THEN 1 ELSE 0]]
    /\ UNCHANGED <<appointments, bookUnchanged>>

\* Lines 150-153, 161-163: another connection holds the write lock and the
\* UPDATE raises "database is locked": rollback, 500.
ExecuteLocked(r) ==
    /\ req[r].pc = "execute"
    /\ db_lock # 0
    /\ req' = [req EXCEPT ![r] = [@ EXCEPT !.pc = "done", !.status = 500]]
    /\ UNCHANGED <<appointments, db_lock, bookUnchanged>>

\* Lines 154-159: db.commit() publishes the update and frees the lock; no row
\* updated is answered 409, one row 200.  (A commit that raises would leave
\* the table as it was and be answered 500 like ExecuteLocked.)
Commit(r) ==
    /\ req[r].pc = "commit"
    /\ db_lock = r
    /\ appointments' =
         IF req[r].rowcount = 1
         THEN [appointments EXCEPT ![req[r].slot_id] = BookedRow(req[r].patient_id)]
         ELSE appointments
    /\ db_lock' = 0
    /\ req' = [req EXCEPT ![r] =
                 [@ EXCEPT !.pc = "done",
                           !.status = IF req[r].rowcount = 0 THEN 409 ELSE 200]]
    /\ UNCHANGED bookUnchanged

NextBook ==
    \E r \in Requests :
        \/ Receive(r)
        \/ Execute(r)
        \/ ExecuteLocked(r)
        \/ Commit(r)

SpecBook == InitBook /\ [][NextBook]_vars

----------------------------------------------------------------------------
(* Properties of book_appointment *)

\* The finished requests that named slot s.
Answered(s, status) ==
    {r \in Requests : req[r].pc = "done" /\ req[r].slot_id = s /\ req[r].status = status}

AtMostOne200 == \A s \in SlotIds : Cardinality(Answered(s, 200)) <= 1

\* A booked row keeps is_booked and patient_id in every step.
BookedRowStays ==
    \A s \in SlotIds : appointments[s].is_booked = 1 => appointments'[s] = appointments[s]

\* C10 as stated: of the requests for one slot id at most one is answered
\* 200 and every other one is answered 409.
C10_OthersAnswered409 ==
    /\ AtMostOne200
    /\ \A r \in Requests :
         (req[r].pc = "done" /\ req[r].slot_id \in SlotIds) => req[r].status \in {200, 409}

\* C10 amended: of the requests for one slot id at most one is answered 200,
\* and only if the slot was free; every other one is answered 409 or, when
\* SQLite raises "database is locked" because another request's
\* transaction is open, 500; and a row with is_booked = 1 keeps
\* its is_booked and patient_id in every later step.
C10_BookedAtMostOnce ==
    /\ [](/\ AtMostOne200
          /\ \A r \in Requests :
               (req[r].pc = "done" /\ req[r].slot_id \in SlotIds) =>
                   /\ req[r].status \in {200, 409, 500}
                   /\ req[r].status = 200 =>
                          appointments[req[r].slot_id] = BookedRow(req[r].patient_id))
    /\ [][BookedRowStays]_vars

\* Three requests for one slot: one answered 200, one 409, one 500.
C10_Witness ==
    \E s \in SlotIds :
        /\ Answered(s, 200) # {}
        /\ Answered(s, 409) # {}
        /\ Answered(s, 500) # {}

====
